---- MODULE Spec2Model ----
(***************************************************************************)
(* Model of the transcript pipeline of                                     *)
(* knowledge-manager/scripts/get_youtube_transcript.py:                    *)
(*   split_text_into_chunks  (the chunker)          specification SpecSplit *)
(*   invoke_with_retry       (the retrying invoker) specification SpecRetry *)
(*   process_video           (the artifact cache)   specification Spec      *)
(*   correct_transcript_chunked (the chunk loop) specification SpecCorrect  *)
(*   summarize_paragraphs    (the batch loop)       specification SpecPara  *)
(* of process_csv of knowledge-manager/scripts/web_crawl.py, specification *)
(* SpecCsv, and of ChatBot of impersonated/src/impersonated/chatbot.py,    *)
(* specification SpecChat.                                                 *)
(* A text is a sequence of one-character strings.                          *)
(***************************************************************************)
EXTENDS Integers, Sequences, FiniteSets, TLC

\* ------------------------------------------------------------------ bounds
MaxTextLen == 7
MaxCharsBound == 6
MaxRetriesBound == 5
MaxBaseDelay == 2
\* chunk_size and paragraph_batch_size of the process_video runs, scaled down
\* from the defaults 12000 and 40 to the size of the modelled transcripts
RunChunkSize == 4
RunBatchSize == 2
\* the paragraphs and batch sizes of the summarize_paragraphs calls
MaxParagraphs == 5
MaxBatchSize == 3
\* the raw texts and chunk sizes of the correct_transcript_chunked calls
MaxRawLen == 4
MaxChunkSize == 2
\* the data rows of the CSV files given to process_csv
MaxCsvRows == 3
\* the history_max_size of the ChatBots and the ask calls made on one
MaxHistorySize == 2
MaxAsks == 4

\* invoke_with_retry(model, messages, max_retries: int = 5, ...)
DefaultMaxRetries == 5

\* corrected_full[:25000] (line 110)
TitleInputMax == 25000

\* ------------------------------------------------------------------ state
VARIABLES
    \* split_text_into_chunks: its arguments, its position, its return value
    text, max_chars, splitPc, chunks,
    \* invoke_with_retry: its arguments, the loop variable, its position, what
    \* it returned or raised, and the history of service calls and sleeps
    max_retries, base_delay, attempt, retryPc, retryResult, svcLog, sleeps,
    \* the document directory: the four artifact files and the set of
    \* title_<name>.txt files (by <name>)
    files, titles,
    \* whether the directory of the video, base_dir/<video id>, exists
    dirExists,
    \* process_video: its position, its arguments and its locals
    pc, force, disable_paragraph_summaries, disable_summary, transcript, corrected,
    \* vid, the local of process_video that outlives it here: the video id the
    \* last call extracted from its URL, or None
    vid,
    \* history of the run in progress (or of the last run once pc = "idle"):
    \* the calls it made, the stages it reached / computed / saw fail, and
    \* how it ended
    fetchCalls, apiExc, llmCalls, reached, computed, failed, outcome,
    \* history of the run before that: its force flag, and whether its Fetch
    \* and Correct stages both succeeded
    prev,
    \* correct_transcript_chunked: its arguments, its locals (chunks, the loop
    \* variable idx, corrected_parts), its position, what it returned or
    \* raised, and the history of its calls and sleeps
    raw_text, chunk_size, per_chunk_sleep, corrChunks, idx, corrected_parts,
    corrPc, corrResult, corrLog,
    \* summarize_paragraphs: its arguments, its locals (blocks, the loop
    \* variable start, summaries), its position, what it returned or raised,
    \* and the history of its requests
    para_text, batch_size, blocks, start, summaries, paraPc, paraResult, paraLog,
    \* process_csv: the CSV file as csv.reader yields it, the summarize
    \* argument, the locals rows, run_results and do_summary, the results
    \* summarized so far, its position, and the history of its calls
    csv_file, summarize, rows, run_results, do_summary, summarized, csvPc, csvLog,
    \* ChatBot: its fields history_max_size and history, the message list of
    \* the last model call, and the number of ask calls made
    history_max_size, history, messages, asks

splitVars == <<text, max_chars, splitPc, chunks>>
retryVars == <<max_retries, base_delay, attempt, retryPc, retryResult, svcLog, sleeps>>
dirVars == <<files, titles>>
runVars == <<pc, force, disable_paragraph_summaries, disable_summary, transcript, corrected>>
histVars == <<fetchCalls, apiExc, llmCalls, reached, computed, failed, outcome, prev>>
urlVars == <<vid, dirExists>>
pipeVars == <<dirVars, runVars, histVars, urlVars>>
corrVars == <<raw_text, chunk_size, per_chunk_sleep, corrChunks, idx, corrected_parts,
              corrPc, corrResult, corrLog>>
paraVars == <<para_text, batch_size, blocks, start, summaries, paraPc, paraResult, paraLog>>
csvVars == <<csv_file, summarize, rows, run_results, do_summary, summarized, csvPc, csvLog>>
chatVars == <<history_max_size, history, messages, asks>>
vars == <<splitVars, retryVars, pipeVars, corrVars, paraVars, csvVars, chatVars>>

\* split_text_into_chunks is not running
SplitIdle ==
    /\ text = <<>>
    /\ max_chars = 1
    /\ splitPc = "idle"
    /\ chunks = <<>>

\* correct_transcript_chunked is not running
NoResponse == [kind |-> "none", title |-> <<>>, transcript |-> <<>>]
CorrIdle ==
    /\ raw_text = <<>>
    /\ chunk_size = 1
    /\ per_chunk_sleep = 0
    /\ corrChunks = <<>>
    /\ idx = 0
    /\ corrected_parts = <<>>
    /\ corrPc = "idle"
    /\ corrResult = NoResponse
    /\ corrLog = <<>>

\* summarize_paragraphs is not running
NoText == [kind |-> "none", text |-> <<>>]
ParaIdle ==
    /\ para_text = <<>>
    /\ batch_size = 1
    /\ blocks = <<>>
    /\ start = 0
    /\ summaries = <<>>
    /\ paraPc = "idle"
    /\ paraResult = NoText
    /\ paraLog = <<>>

\* process_csv is not running
CsvIdle ==
    /\ csv_file = <<>>
    /\ summarize = "False"
    /\ rows = <<>>
    /\ run_results = <<>>
    /\ do_summary = FALSE
    /\ summarized = 0
    /\ csvPc = "idle"
    /\ csvLog = <<>>

\* no ChatBot has been built
ChatIdle ==
    /\ history_max_size = 0
    /\ history = <<>>
    /\ messages = <<>>
    /\ asks = 0

\* ------------------------------------------------------------------ directory
\* a file of the document directory: absent, or present with its content
Absent == [exists |-> FALSE, data |-> <<>>]
FileOf(d) == [exists |-> TRUE, data |-> d]

\* original_transcript.md, corrected_transcript.md, paragraph_summaries.md,
\* summary.md (lines 308-311)
ArtifactNames ==
    {"original_transcript", "corrected_transcript", "paragraph_summaries", "summary"}

LlmStages == {"correct", "paragraphs", "summary"}
NoCalls == [st \in LlmStages |-> 0]
NoRun == [ran |-> FALSE, force |-> FALSE, corrected |-> FALSE]

\* None, as extract_video_id returns it
NoId == <<>>

\* no process_video run has started yet: the document directory is empty
PipeIdle ==
    /\ files = [a \in ArtifactNames |-> Absent]
    /\ titles = {}
    /\ pc = "idle"
    /\ force = FALSE
    /\ disable_paragraph_summaries = FALSE
    /\ disable_summary = FALSE
    /\ transcript = <<>>
    /\ corrected = <<>>
    /\ fetchCalls = 0
    /\ apiExc = "none"
    /\ llmCalls = NoCalls
    /\ reached = {}
    /\ computed = {}
    /\ failed = {}
    /\ outcome = "none"
    /\ prev = NoRun
    /\ vid = NoId
    /\ dirExists = FALSE

\* ------------------------------------------------------------------ texts
NL == "\n"
Alphabet == {"a", "b", " ", NL}

\* str.strip() and the truth test `if p.strip()` see these as whitespace
IsSpace(c) == c \in {" ", NL}

RECURSIVE TextsUpTo(_)
TextsUpTo(n) ==
    IF n = 0 THEN {<<>>}
    ELSE LET shorter == TextsUpTo(n - 1)
         IN  shorter \cup {Append(t, c) : t \in {s \in shorter : Len(s) = n - 1}, c \in Alphabet}

\* s[i:j] of Python with 0 <= i <= j (0-based, j exclusive, clipped to len(s))
Slice(s, i, j) ==
    LET hi == IF j < Len(s) THEN j ELSE Len(s)
    IN  IF i >= hi THEN <<>> ELSE SubSeq(s, i + 1, hi)

RECURSIVE LStrip(_)
LStrip(s) == IF s # <<>> /\ IsSpace(Head(s)) THEN LStrip(Tail(s)) ELSE s

RECURSIVE RStrip(_)
RStrip(s) ==
    IF s # <<>> /\ IsSpace(s[Len(s)]) THEN RStrip(SubSeq(s, 1, Len(s) - 1)) ELSE s

\* str.strip()
Strip(s) == RStrip(LStrip(s))

\* the index of the last newline of the run of newlines that starts at i
RECURSIVE RunEnd(_, _)
RunEnd(s, i) == IF i < Len(s) /\ s[i + 1] = NL THEN RunEnd(s, i + 1) ELSE i

\* re.split(r"\n{2,}", s): the pieces between the maximal runs of two or more
\* newlines, empty pieces at the ends kept
RECURSIVE ReSplitFrom(_, _, _, _)
ReSplitFrom(s, i, piece, acc) ==
    IF i > Len(s) THEN Append(acc, piece)
    ELSE IF s[i] = NL /\ i < Len(s) /\ s[i + 1] = NL
         THEN ReSplitFrom(s, RunEnd(s, i) + 1, <<>>, Append(acc, piece))
         ELSE ReSplitFrom(s, i + 1, Append(piece, s[i]), acc)

ReSplit(s) == ReSplitFrom(s, 1, <<>>, <<>>)

\* [p.strip() for p in re.split(r"\n{2,}", text) if p.strip()]
RECURSIVE StripNonEmpty(_)
StripNonEmpty(pieces) ==
    IF pieces = <<>> THEN <<>>
    ELSE LET p == Strip(Head(pieces))
         IN  IF p = <<>> THEN StripNonEmpty(Tail(pieces))
             ELSE <<p>> \o StripNonEmpty(Tail(pieces))

Paragraphs(s) == StripNonEmpty(ReSplit(s))

\* sep.join(parts)
RECURSIVE Join(_, _)
Join(parts, sep) ==
    IF parts = <<>> THEN <<>>
    ELSE IF Len(parts) = 1 THEN parts[1]
    ELSE parts[1] \o sep \o Join(Tail(parts), sep)

ParaSep == <<NL, NL>>

\* ------------------------------------------------------------------ chunker
\* the greedy packing loop: `current` is the list of paragraphs of the open
\* chunk, `current_len` the running length the code keeps for it
RECURSIVE PackDropping(_, _, _, _, _)
PackDropping(paragraphs, mc, chunkList, current, current_len) ==
    IF paragraphs = <<>>
    THEN IF current # <<>> THEN Append(chunkList, Join(current, ParaSep)) ELSE chunkList
    ELSE LET para == Head(paragraphs)
             add_len == Len(para) + 2
         IN  IF current # <<>> /\ current_len + add_len > mc
             THEN PackDropping(Tail(paragraphs), mc,
                               Append(chunkList, Join(current, ParaSep)), <<>>, 0)
             ELSE PackDropping(Tail(paragraphs), mc, chunkList,
                               Append(current, para), current_len + add_len)

RECURSIVE Pack(_, _, _, _, _)
Pack(paragraphs, mc, chunkList, current, current_len) ==
    IF paragraphs = <<>>
    THEN IF current # <<>> THEN Append(chunkList, Join(current, ParaSep)) ELSE chunkList
    ELSE LET para == Head(paragraphs)
             add_len == Len(para) + 2
         IN  IF current # <<>> /\ current_len + add_len > mc
             THEN Pack(Tail(paragraphs), mc,
                       Append(chunkList, Join(current, ParaSep)), <<para>>, Len(para))
             ELSE Pack(Tail(paragraphs), mc, chunkList,
                       Append(current, para), current_len + add_len)

\* [c[i:i+mc] for i in range(0, len(c), mc)]
RECURSIVE HardSlice(_, _, _)
HardSlice(c, mc, i) ==
    IF i >= Len(c) THEN <<>>
    ELSE <<Slice(c, i, i + mc)>> \o HardSlice(c, mc, i + mc)

\* the fallback loop over the packed chunks
FallbackNoSlice(chunkList, mc) == chunkList

RECURSIVE Fallback(_, _)
Fallback(chunkList, mc) ==
    IF chunkList = <<>> THEN <<>>
    ELSE LET c == Head(chunkList)
         IN  (IF Len(c) <= mc THEN <<c>> ELSE HardSlice(c, mc, 0))
             \o Fallback(Tail(chunkList), mc)

PackedChunks(s, mc) == Pack(Paragraphs(s), mc, <<>>, <<>>, 0)

\* the early return of lines 66-67
FitsNever(s, mc) == FALSE

Fits(s, mc) == Len(s) <= mc

split_text_into_chunks(s, mc) ==
    IF Fits(s, mc) THEN <<s>> ELSE Fallback(PackedChunks(s, mc), mc)

\* ------------------------------------------------------------------ retrying invoker
\* An error message is a sequence of words.  Lower is str.lower() on a word.
Lower(w) ==
    CASE w = "Quota" -> "quota"
      [] w = "QUOTA" -> "quota"
      [] w = "Exceeded" -> "exceeded"
      [] w = "Rate" -> "rate"
      [] w = "RATE" -> "rate"
      [] w = "Limit" -> "limit"
      [] w = "LIMIT" -> "limit"
      [] w = "Retry" -> "retry"
      [] w = "In" -> "in"
      [] w = "7S" -> "7s"
      [] OTHER -> w

\* the words [0-9]+s of the messages, and the number float() reads from them
SecondsWords == {"7s", "3s"}
SecondsOf(w) == IF w = "7s" THEN 7 ELSE 3

\* `a b` in msg: the two words next to each other
HasPair(msg, a, b) ==
    \E i \in 1..(Len(msg) - 1) : msg[i] = a /\ msg[i + 1] = b

LowerMsg(msg) == [i \in 1..Len(msg) |-> Lower(msg[i])]

\* re.search(r"retry in ([0-9]+(?:\.[0-9]+)?)s", msg, re.IGNORECASE): the
\* positions of a match, leftmost first
RetryInMatches(msg) ==
    {i \in 1..(Len(msg) - 2) :
        /\ Lower(msg[i]) = "retry"
        /\ Lower(msg[i + 1]) = "in"
        /\ Lower(msg[i + 2]) \in SecondsWords}

Min(S) == CHOOSE x \in S : \A y \in S : x <= y

_parse_retry_delay_seconds(msg) ==
    IF RetryInMatches(msg) # {}
    THEN SecondsOf(Lower(msg[Min(RetryInMatches(msg)) + 2]))
    ELSE 10

\* line 49: "Quota exceeded" in emsg or "rate limit" in emsg.lower()
IsQuotaError(msg) ==
    HasPair(msg, "Quota", "exceeded") \/ HasPair(LowerMsg(msg), "rate", "limit")

\* lines 49-52
RetryDelayFlat(msg, bd, att) ==
    IF IsQuotaError(msg) THEN _parse_retry_delay_seconds(msg) ELSE bd

RetryDelay(msg, bd, att) ==
    IF IsQuotaError(msg) THEN _parse_retry_delay_seconds(msg) ELSE bd * att

\* what model.invoke can do: return a response or raise an error
ErrorMessages ==
    { <<"boom">>,
      <<"Quota", "exceeded", "Retry", "in", "7s">>,
      <<"quota", "exceeded", "retry", "in", "3s">>,
      <<"Rate", "LIMIT", "hit">> }

Responses == {<<"r1">>, <<"r2">>}

ResponseOf(body) == [kind |-> "response", cls |-> "Response", body |-> body]
ErrorOf(msg) == [kind |-> "error", cls |-> "ServiceError", body |-> msg]
NoneValue == [kind |-> "None", cls |-> "NoneType", body |-> <<>>]

\* line 53: attempt == max_retries
IsFinalAttemptEarly(att, mr) == att = mr - 1

IsFinalAttempt(att, mr) == att = mr

\* line 57: time.sleep(delay)
SleepSkipped(log, delay) == log

Sleep(log, delay) == Append(log, delay)

\* line 55: the bare `raise` re-raises the exception being handled
ReRaiseFirst(log, e) == log[1]

ReRaise(log, e) == e

\* invoke_with_retry is not running
RetryIdle ==
    /\ max_retries = 0
    /\ base_delay = 1
    /\ attempt = 0
    /\ retryPc = "idle"
    /\ retryResult = NoneValue
    /\ svcLog = <<>>
    /\ sleeps = <<>>

InitRetry ==
    /\ max_retries \in 0..MaxRetriesBound
    /\ base_delay \in 1..MaxBaseDelay
    /\ attempt = 1
    /\ retryPc = "loop"
    /\ retryResult = NoneValue
    /\ svcLog = <<>>
    /\ sleeps = <<>>
    /\ SplitIdle
    /\ PipeIdle
    /\ CorrIdle
    /\ ParaIdle
    /\ CsvIdle
    /\ ChatIdle

\* range(1, max_retries + 1) is exhausted: the function falls off its end
RetryLoopEnd ==
    /\ retryPc = "loop"
    /\ attempt > max_retries
    /\ retryPc' = "returned"
    /\ retryResult' = NoneValue
    /\ UNCHANGED <<max_retries, base_delay, attempt, svcLog, sleeps, splitVars, pipeVars, corrVars, paraVars, csvVars, chatVars>>

\* line 46: model.invoke returns
RetryCallOk ==
    /\ retryPc = "loop"
    /\ attempt <= max_retries
    /\ \E body \in Responses :
        /\ svcLog' = Append(svcLog, ResponseOf(body))
        /\ retryResult' = ResponseOf(body)
    /\ retryPc' = "returned"
    /\ UNCHANGED <<max_retries, base_delay, attempt, sleeps, splitVars, pipeVars, corrVars, paraVars, csvVars, chatVars>>

\* lines 47-57: model.invoke raises
RetryCallFails ==
    /\ retryPc = "loop"
    /\ attempt <= max_retries
    /\ \E msg \in ErrorMessages :
        LET e == ErrorOf(msg)
            log == Append(svcLog, e)
            delay == RetryDelay(msg, base_delay, attempt)
        IN  /\ svcLog' = log
            /\ IF IsFinalAttempt(attempt, max_retries)
               THEN /\ retryPc' = "raised"
                    /\ retryResult' = ReRaise(log, e)
                    /\ UNCHANGED <<attempt, sleeps>>
               ELSE /\ sleeps' = Sleep(sleeps, delay)
                    /\ attempt' = attempt + 1
                    /\ UNCHANGED <<retryPc, retryResult>>
    /\ UNCHANGED <<max_retries, base_delay, splitVars, pipeVars, corrVars, paraVars, csvVars, chatVars>>

NextRetry == RetryLoopEnd \/ RetryCallOk \/ RetryCallFails

SpecRetry == InitRetry /\ [][NextRetry]_vars

RetryDone == retryPc \in {"returned", "raised"}

\* every call the service has answered so far failed
AllCallsFailed == \A i \in 1..Len(svcLog) : svcLog[i].kind = "error"

\* C5: against a service that fails on every call, invoke_with_retry (given
\* at least one permitted attempt) ends by raising after exactly max_retries
\* calls, and never makes more than max_retries calls on the way
AlwaysFailingExactCalls ==
    /\ Len(svcLog) <= max_retries
    /\ (RetryDone /\ max_retries >= 1 /\ AllCallsFailed)
          => (retryPc = "raised" /\ Len(svcLog) = max_retries)

\* C5 witness: the default max_retries of 5, all five calls failed, raised
AlwaysFailingExactCallsWitness ==
    /\ retryPc = "raised"
    /\ max_retries = DefaultMaxRetries
    /\ Len(svcLog) = DefaultMaxRetries
    /\ AllCallsFailed

\* the first k calls failed and call k+1 succeeded
FailedThenSucceeded(k) ==
    /\ Len(svcLog) = k + 1
    /\ \A i \in 1..k : svcLog[i].kind = "error"
    /\ svcLog[k + 1].kind = "response"

SucceededState ==
    \A k \in 0..(max_retries - 1) :
        FailedThenSucceeded(k) =>
            /\ retryPc = "returned"
            /\ retryResult = svcLog[k + 1]
            /\ Len(sleeps) = k

\* C6: when the service fails its first k < max_retries calls and then
\* succeeds, invoke_with_retry returns the response of call k+1 having slept
\* exactly k times; it never gives up before max_retries failures, and once
\* it has returned it makes no further call and sleeps no more
SucceedsAfterKFailures ==
    /\ [](SucceededState /\ (retryPc = "raised" => Len(svcLog) = max_retries))
    /\ [][retryPc = "returned" => UNCHANGED <<svcLog, sleeps, retryResult>>]_vars

\* C6 witness: two failures, then the third call succeeded
SucceedsAfterKFailuresWitness ==
    /\ FailedThenSucceeded(2)
    /\ retryPc = "returned"
    /\ Len(sleeps) = 2
    /\ max_retries > 3

\* C7 as claimed: exhaustion raises a RetryExhausted error
RaisesRetryExhausted ==
    retryPc = "raised" => retryResult.cls = "RetryExhausted"

\* C7 as amended: exhaustion re-raises the error of the last call itself,
\* unwrapped
RaisesLastError ==
    retryPc = "raised" =>
        /\ Len(svcLog) = max_retries
        /\ retryResult = svcLog[max_retries]
        /\ retryResult.kind = "error"
        /\ retryResult.cls = "ServiceError"

\* C7 witness: raised after the last of several calls, whose error differs
\* from the first call's
RaisesLastErrorWitness ==
    /\ retryPc = "raised"
    /\ max_retries >= 2
    /\ svcLog[1] # svcLog[max_retries]
    /\ retryResult = svcLog[max_retries]

\* C28 as claimed: whatever max_retries is, invoke_with_retry has called the
\* service at least once when it ends, and when it returns, it returns the
\* response of its last call
CallsOnceAndReturnsResponse ==
    /\ RetryDone => Len(svcLog) >= 1
    /\ retryPc = "returned" =>
        /\ retryResult.kind = "response"
        /\ svcLog # <<>>
        /\ retryResult = svcLog[Len(svcLog)]

\* C28 witness: with max_retries = 0 the function has returned None without
\* a call
ReturnsNoneWithoutCall ==
    /\ retryPc = "returned"
    /\ max_retries = 0
    /\ svcLog = <<>>
    /\ sleeps = <<>>
    /\ retryResult = NoneValue

\* the phrases of an error message, read without regard to letter case
QuotaAnyCase(msg) == HasPair(LowerMsg(msg), "quota", "exceeded")
RateLimitAnyCase(msg) == HasPair(LowerMsg(msg), "rate", "limit")

\* the phrase "Quota exceeded" in exactly that letter case
QuotaExact(msg) == HasPair(msg, "Quota", "exceeded")

\* the N of the leftmost "retry in Ns" of a message, in any letter case, and
\* 10 when the message has none
HintedSeconds(msg) ==
    LET low == LowerMsg(msg)
        hits == {i \in 1..(Len(low) - 2) :
                    low[i] = "retry" /\ low[i + 1] = "in" /\ low[i + 2] \in SecondsWords}
    IN  IF hits = {} THEN 10 ELSE SecondsOf(low[Min(hits) + 2])

\* sleeps[i] is the delay slept after failed attempt i, svcLog[i] its error
FailedAttempts == 1..Len(sleeps)

\* C17 as claimed: an error carrying the quota or the rate-limit indicator in
\* any letter case is followed by a delay of the N of its "retry in Ns", or
\* of 10 seconds when it names no delay
AnyCaseIndicatorUsesHint ==
    \A i \in FailedAttempts :
        (QuotaAnyCase(svcLog[i].body) \/ RateLimitAnyCase(svcLog[i].body))
            => sleeps[i] = HintedSeconds(svcLog[i].body)

\* C17, what line 49 does: the delay is the N of "retry in Ns" (10 when absent)
\* for an error carrying "Quota exceeded" in exactly that letter case or "rate
\* limit" in any letter case; "quota exceeded" in another letter case alone
\* is not recognised and the delay is base_delay * attempt
RecognisedIndicatorUsesHint ==
    \A i \in FailedAttempts :
        LET msg == svcLog[i].body
        IN  /\ (QuotaExact(msg) \/ RateLimitAnyCase(msg))
                  => sleeps[i] = HintedSeconds(msg)
            /\ (QuotaAnyCase(msg) /\ ~QuotaExact(msg) /\ ~RateLimitAnyCase(msg))
                  => sleeps[i] = base_delay * i

\* C17 witness: one run slept the 7 seconds a quota error named and the
\* default 10 seconds after a rate-limit error naming none, but only
\* base_delay after a first failure saying "quota exceeded retry in 3s"
LowerCaseQuotaNotRecognised ==
    /\ base_delay = 1
    /\ Len(sleeps) >= 3
    /\ svcLog[1].body = <<"quota", "exceeded", "retry", "in", "3s">>
    /\ sleeps[1] = 1
    /\ \E i, j \in FailedAttempts :
        /\ QuotaExact(svcLog[i].body) /\ sleeps[i] = 7
        /\ RateLimitAnyCase(svcLog[j].body) /\ sleeps[j] = 10

\* C18: after a failure whose error carries neither indicator, the delay
\* before the next attempt is base_delay * a, a the number of the attempt
\* that failed
PlainErrorLinearDelay ==
    \A a \in FailedAttempts :
        (~QuotaAnyCase(svcLog[a].body) /\ ~RateLimitAnyCase(svcLog[a].body))
            => sleeps[a] = base_delay * a

\* C18 witness: three plain failures in a row, slept base_delay, 2 and 3
\* times base_delay, with a base_delay other than 1
PlainErrorLinearDelayWitness ==
    /\ base_delay = 2
    /\ Len(sleeps) >= 3
    /\ \A a \in 1..3 : svcLog[a].body = <<"boom">>
    /\ sleeps[1] = 2 /\ sleeps[2] = 4 /\ sleeps[3] = 6

\* ------------------------------------------------------------------ SpecSplit
\* one call of split_text_into_chunks on an arbitrary text
InitSplit ==
    /\ text \in TextsUpTo(MaxTextLen)
    /\ max_chars \in 1..MaxCharsBound
    /\ splitPc = "call"
    /\ chunks = <<>>
    /\ RetryIdle
    /\ PipeIdle
    /\ CorrIdle
    /\ ParaIdle
    /\ CsvIdle
    /\ ChatIdle

SplitCall ==
    /\ splitPc = "call"
    /\ chunks' = split_text_into_chunks(text, max_chars)
    /\ splitPc' = "returned"
    /\ UNCHANGED <<text, max_chars, retryVars, pipeVars, corrVars, paraVars, csvVars, chatVars>>

NextSplit == SplitCall

SpecSplit == InitSplit /\ [][NextSplit]_vars

\* the non-whitespace characters of a text, in order
NonSpace(s) == SelectSeq(s, LAMBDA c : ~IsSpace(c))

\* C8: every chunk split_text_into_chunks returns is at most max_chars long
ChunksWithinMax ==
    splitPc = "returned" => \A i \in 1..Len(chunks) : Len(chunks[i]) <= max_chars

\* C8 witness: a paragraph longer than max_chars was hard-sliced beside a
\* chunk that packs a whole paragraph
ChunksWithinMaxWitness ==
    /\ splitPc = "returned"
    /\ \E i \in 1..Len(Paragraphs(text)) : Len(Paragraphs(text)[i]) > max_chars
    /\ Len(chunks) >= 3
    /\ Len(PackedChunks(text, max_chars)) >= 2

\* C9: the chunks joined by the paragraph separator hold exactly the
\* non-whitespace characters of the text, in the order of the text
JoinKeepsNonSpace ==
    splitPc = "returned" => NonSpace(Join(chunks, ParaSep)) = NonSpace(text)

\* C9 witness: a text over the limit whose paragraphs were packed into two
\* chunks, the first of them holding two paragraphs
JoinKeepsNonSpaceWitness ==
    /\ splitPc = "returned"
    /\ Len(text) > max_chars
    /\ Len(chunks) = 2
    /\ Len(Paragraphs(text)) = 3
    /\ Len(Paragraphs(chunks[1])) = 2

\* C10: a text no longer than max_chars comes back as the single chunk
ShortTextOneChunk ==
    (splitPc = "returned" /\ Len(text) <= max_chars) => chunks = <<text>>

\* C10 witness: a short text that the paragraph path would have changed
ShortTextOneChunkWitness ==
    /\ splitPc = "returned"
    /\ Len(text) <= max_chars
    /\ chunks = <<text>>
    /\ Fallback(PackedChunks(text, max_chars), max_chars) # <<text>>

\* the packing rule as C19 words it: the running length is the length of the
\* chunk built so far, the joined paragraphs of current
RECURSIVE PackByLength(_, _, _, _)
PackByLength(paragraphs, mc, chunkList, current) ==
    IF paragraphs = <<>>
    THEN IF current # <<>> THEN Append(chunkList, Join(current, ParaSep)) ELSE chunkList
    ELSE LET para == Head(paragraphs)
             built == Len(Join(current, ParaSep))
         IN  IF current = <<>> \/ built + Len(para) + 2 <= mc
             THEN PackByLength(Tail(paragraphs), mc, chunkList, Append(current, para))
             ELSE PackByLength(Tail(paragraphs), mc,
                               Append(chunkList, Join(current, ParaSep)), <<para>>)

\* C19 as claimed: a paragraph joins the current chunk exactly when the length
\* of the chunk built so far plus the paragraph's length plus 2 is at most
\* max_chars, otherwise it starts the next chunk
GreedyByChunkLength ==
    (splitPc = "returned" /\ Len(text) > max_chars) =>
        chunks = Fallback(PackByLength(Paragraphs(text), max_chars, <<>>, <<>>), max_chars)

\* C19 witness: the paragraphs "a", "b", "a" under max_chars = 5: "b" is
\* turned away from the first chunk although "a\n\nb" is 4 long, and then
\* shares the second chunk with the last paragraph
FirstChunkCountsJoinTwice ==
    /\ splitPc = "returned"
    /\ text = <<"a", NL, NL, "b", NL, NL, "a">>
    /\ max_chars = 5
    /\ chunks = << <<"a">>, <<"b", NL, NL, "a">> >>

\* ------------------------------------------------------------------ chunked corrector
\* str(n) for n >= 1
RECURSIVE Decimal(_)
Decimal(n) ==
    LET digit == <<"0", "1", "2", "3", "4", "5", "6", "7", "8", "9">>
    IN  IF n < 10 THEN <<digit[n + 1]>> ELSE Decimal(n \div 10) \o <<digit[(n % 10) + 1]>>

\* what the correction model can answer to one invoke_with_retry: a structured
\* TranscriptResponse, or the error invoke_with_retry raises once its retries
\* are exhausted (ok = FALSE)
LlmTitles == {<<"T", " ", "U">>, <<"A", "/", "B">>}
LlmTranscripts == {<<"x">>, <<" ", "y">>}
CallFailed == [ok |-> FALSE, title |-> <<>>, transcript |-> <<>>]
CorrectionReplies ==
    {CallFailed} \cup {[ok |-> TRUE, title |-> t, transcript |-> x] :
                          t \in LlmTitles, x \in LlmTranscripts}

\* what the title model can answer to model.invoke: a content, or an error
TitleReplies == {[ok |-> FALSE, content |-> <<>>]} \cup
                {[ok |-> TRUE, content |-> t] : t \in LlmTitles}

\* the title model can also answer with a blank content
AllTitleReplies == TitleReplies \cup {[ok |-> TRUE, content |-> <<" ">>]}

DefaultTitle == <<"Transcript">>

\* content.splitlines()[0] of a non-empty content
RECURSIVE FirstLine(_)
FirstLine(s) ==
    IF s = <<>> \/ Head(s) = NL THEN <<>> ELSE <<Head(s)>> \o FirstLine(Tail(s))

\* a generate_title without the fallback of line 121
TitleOrNothing(corrected_full, reply) ==
    IF ~reply.ok \/ Strip(reply.content) = <<>> THEN <<>>
    ELSE Slice(FirstLine(Strip(reply.content)), 0, 120)

\* generate_title (lines 101-121): splitlines() of an empty content is the
\* empty list, whose [0] raises into the except branch
generate_title(corrected_full, reply) ==
    IF ~reply.ok \/ Strip(reply.content) = <<>> THEN DefaultTitle
    ELSE Slice(FirstLine(Strip(reply.content)), 0, 120)

\* f"[Chunk {idx} correction failed]\n{chunk}" (line 162)
FailedPartBare(i, chunk) ==
    <<"[Chunk ">> \o Decimal(i) \o <<" correction failed]">>

FailedPart(i, chunk) ==
    <<"[Chunk ">> \o Decimal(i) \o <<" correction failed]", NL>> \o chunk

\* the number of correct_transcript calls correct_transcript_chunked makes
NumCorrectionCalls(raw, size) ==
    LET cs == split_text_into_chunks(raw, size)
    IN  IF Len(cs) = 1 THEN 1 ELSE Len(cs)

\* lines 153-165: one part per chunk
CorrectedParts(cs, replies) ==
    [i \in 1..Len(cs) |->
        IF replies[i].ok THEN Strip(replies[i].transcript)
        ELSE FailedPart(i, cs[i])]

\* correct_transcript_chunked (lines 138-170); replies[i] answers the i-th
\* correct_transcript call and titleReply the generate_title call
correct_transcript_chunked(raw, size, replies, titleReply) ==
    LET cs == split_text_into_chunks(raw, size)
    IN  IF Len(cs) = 1
        THEN [raised |-> ~replies[1].ok,
              title |-> replies[1].title,
              transcript |-> replies[1].transcript,
              requests |-> 1]
        ELSE LET combined == Strip(Join(CorrectedParts(cs, replies), ParaSep))
             IN  [raised |-> FALSE,
                  title |-> generate_title(combined, titleReply),
                  transcript |-> combined,
                  requests |-> Len(cs) + 1]

\* ------------------------------------------------------------------ SpecCorrect
\* one call of correct_transcript_chunked, chunk by chunk
RawAlphabet == {"a", NL}

RECURSIVE RawTextsUpTo(_)
RawTextsUpTo(n) ==
    IF n = 0 THEN {<<>>}
    ELSE LET shorter == RawTextsUpTo(n - 1)
         IN  shorter \cup {Append(t, c) : t \in {r \in shorter : Len(r) = n - 1},
                                          c \in RawAlphabet}

\* per_chunk_sleep: 0.0 by default, 2.0 from the command line
InterChunkSleeps == {0, 2}

\* the entries of corrLog: a correct_transcript call on a chunk with its
\* outcome, a time.sleep, the model.invoke of generate_title
CorrectEvent(i, chunk, reply) ==
    [ev |-> "correct", idx |-> i, input |-> chunk, ok |-> reply.ok,
     output |-> reply.transcript, title |-> reply.title, delay |-> 0]
SleepEvent(i) ==
    [ev |-> "sleep", idx |-> i, input |-> <<>>, ok |-> TRUE, output |-> <<>>,
     title |-> <<>>, delay |-> per_chunk_sleep]
TitleEvent(prompt, reply) ==
    [ev |-> "title", idx |-> 0, input |-> prompt, ok |-> reply.ok,
     output |-> reply.content, title |-> <<>>, delay |-> 0]

\* the transcript generate_title puts in its prompt (line 110)
TitleInput(corrected_full) == Slice(corrected_full, 0, TitleInputMax)

TranscriptResponse(t, x) == [kind |-> "response", title |-> t, transcript |-> x]
RaisedError == [kind |-> "error", title |-> <<>>, transcript |-> <<>>]

InitCorrect ==
    /\ raw_text \in RawTextsUpTo(MaxRawLen)
    /\ chunk_size \in 1..MaxChunkSize
    /\ per_chunk_sleep \in InterChunkSleeps
    /\ corrChunks = <<>>
    /\ idx = 0
    /\ corrected_parts = <<>>
    /\ corrPc = "start"
    /\ corrResult = NoResponse
    /\ corrLog = <<>>
    /\ SplitIdle
    /\ RetryIdle
    /\ PipeIdle
    /\ ParaIdle
    /\ CsvIdle
    /\ ChatIdle

\* lines 143-152: the text is split; one chunk takes the single-call path
CorrSplit ==
    /\ corrPc = "start"
    /\ corrChunks' = split_text_into_chunks(raw_text, chunk_size)
    /\ IF Len(corrChunks') = 1
       THEN corrPc' = "single" /\ UNCHANGED idx
       ELSE corrPc' = "loop" /\ idx' = 1
    /\ UNCHANGED <<raw_text, chunk_size, per_chunk_sleep, corrected_parts, corrResult,
                   corrLog, splitVars, retryVars, pipeVars, paraVars, csvVars, chatVars>>

\* line 147: return correct_transcript(raw_text), whose error propagates
CorrSingle ==
    /\ corrPc = "single"
    /\ \E reply \in CorrectionReplies :
        /\ corrLog' = Append(corrLog, CorrectEvent(1, raw_text, reply))
        /\ IF reply.ok
           THEN /\ corrResult' = TranscriptResponse(reply.title, reply.transcript)
                /\ corrPc' = "returned"
           ELSE /\ corrResult' = RaisedError
                /\ corrPc' = "raised"
    /\ UNCHANGED <<raw_text, chunk_size, per_chunk_sleep, corrChunks, idx, corrected_parts,
                   splitVars, retryVars, pipeVars, paraVars, csvVars, chatVars>>

\* line 153: the for loop over the chunks has run out
LoopDoneEarly(i, n) == i >= n

LoopDone(i, n) == i > n

\* lines 163-165: the pause between two chunks
\* a sleep test without the idx < len(chunks) of line 163
SleepDueAlways(i, n, delay) == delay > 0

SleepDue(i, n, delay) == delay > 0 /\ i < n

AfterChunk(log) ==
    IF SleepDue(idx, Len(corrChunks), per_chunk_sleep)
    THEN Append(log, SleepEvent(idx))
    ELSE log

\* lines 154-159: the chunk is corrected
CorrChunkOk ==
    /\ corrPc = "loop"
    /\ ~LoopDone(idx, Len(corrChunks))
    /\ \E reply \in CorrectionReplies \ {CallFailed} :
        /\ corrected_parts' = Append(corrected_parts, Strip(reply.transcript))
        /\ corrLog' = AfterChunk(Append(corrLog, CorrectEvent(idx, corrChunks[idx], reply)))
    /\ idx' = idx + 1
    /\ UNCHANGED <<raw_text, chunk_size, per_chunk_sleep, corrChunks, corrPc, corrResult,
                   splitVars, retryVars, pipeVars, paraVars, csvVars, chatVars>>

\* lines 160-162: correct_transcript raised, the failure is logged and the
\* chunk is kept as it was
CorrChunkFails ==
    /\ corrPc = "loop"
    /\ ~LoopDone(idx, Len(corrChunks))
    /\ corrected_parts' = Append(corrected_parts, FailedPart(idx, corrChunks[idx]))
    /\ corrLog' = AfterChunk(Append(corrLog, CorrectEvent(idx, corrChunks[idx], CallFailed)))
    /\ idx' = idx + 1
    /\ UNCHANGED <<raw_text, chunk_size, per_chunk_sleep, corrChunks, corrPc, corrResult,
                   splitVars, retryVars, pipeVars, paraVars, csvVars, chatVars>>

\* lines 166-170: the parts are joined and the title is generated
CorrTitle ==
    /\ corrPc = "loop"
    /\ LoopDone(idx, Len(corrChunks))
    /\ LET combined == Strip(Join(corrected_parts, ParaSep))
       IN  \E reply \in AllTitleReplies :
            /\ corrLog' = Append(corrLog, TitleEvent(TitleInput(combined), reply))
            /\ corrResult' = TranscriptResponse(generate_title(combined, reply), combined)
    /\ corrPc' = "returned"
    /\ UNCHANGED <<raw_text, chunk_size, per_chunk_sleep, corrChunks, idx, corrected_parts,
                   splitVars, retryVars, pipeVars, paraVars, csvVars, chatVars>>

NextCorrect == CorrSplit \/ CorrSingle \/ CorrChunkOk \/ CorrChunkFails \/ CorrTitle

SpecCorrect == InitCorrect /\ [][NextCorrect]_vars

\* the correct_transcript calls made so far, in the order they were made
CorrectCalls == SelectSeq(corrLog, LAMBDA e : e.ev = "correct")

\* the call is on the multi-chunk path (lines 148-170)
MultiChunkPath == corrPc \in {"loop", "returned"} /\ Len(corrChunks) # 1

\* C11: on the multi-chunk path a failed chunk never aborts the call: the
\* chunks are processed one by one in their order, each leaves one part, the
\* stripped corrected text when its correction succeeded and the marker
\* "[Chunk i correction failed]" followed by the chunk's own text when it
\* failed, and the transcript returned is these parts, one per chunk, joined
\* in chunk order
ChunkFailuresKept ==
    /\ corrPc = "raised" => Len(corrChunks) = 1
    /\ MultiChunkPath =>
        /\ Len(CorrectCalls) = Len(corrected_parts)
        /\ \A i \in 1..Len(CorrectCalls) :
            /\ CorrectCalls[i].idx = i
            /\ CorrectCalls[i].input = corrChunks[i]
            /\ corrected_parts[i] =
                  IF CorrectCalls[i].ok THEN Strip(CorrectCalls[i].output)
                  ELSE <<"[Chunk ">> \o Decimal(i) \o <<" correction failed]", NL>>
                       \o corrChunks[i]
        /\ corrPc = "returned" =>
            /\ Len(corrected_parts) = Len(corrChunks)
            /\ corrResult.kind = "response"
            /\ corrResult.transcript = Strip(Join(corrected_parts, ParaSep))

\* C11 witness: three chunks, the second of which failed between two that
\* succeeded, and the call returned
ChunkFailuresKeptWitness ==
    /\ corrPc = "returned"
    /\ Len(corrChunks) = 3
    /\ CorrectCalls[1].ok /\ ~CorrectCalls[2].ok /\ CorrectCalls[3].ok
    /\ corrected_parts[2] = <<"[Chunk ", "2", " correction failed]", NL>> \o corrChunks[2]
    /\ corrResult.transcript =
          corrected_parts[1] \o ParaSep \o corrected_parts[2] \o ParaSep \o corrected_parts[3]

\* the positions of the title-generation calls in corrLog
TitleCalls == {k \in 1..Len(corrLog) : corrLog[k].ev = "title"}

\* the title that a title-generation call's answer stands for
TitleFrom(e) ==
    IF e.ok /\ Strip(e.output) # <<>>
    THEN Slice(FirstLine(Strip(e.output)), 0, 120)
    ELSE DefaultTitle

\* C20: on the multi-chunk path no title is generated while chunks are still
\* being corrected; the call returns after exactly one title-generation
\* call, made after the correction call of every chunk, whose input is the
\* first 25000 characters of the aggregate transcript, and the title
\* returned is the one that call yields, whatever titles the chunk
\* corrections carried
TitleOnceAfterAllChunks ==
    MultiChunkPath =>
        /\ corrPc = "loop" => TitleCalls = {}
        /\ corrPc = "returned" =>
            /\ TitleCalls = {Len(corrLog)}
            /\ Len(CorrectCalls) = Len(corrChunks)
            /\ corrLog[Len(corrLog)].input = Slice(corrResult.transcript, 0, 25000)
            /\ corrResult.title = TitleFrom(corrLog[Len(corrLog)])

\* C20 witness: two corrected chunks that both carried the title "A/B", and
\* the title returned is the generated "T U"
TitleOnceAfterAllChunksWitness ==
    /\ corrPc = "returned"
    /\ Len(corrChunks) = 2
    /\ \A i \in 1..2 : CorrectCalls[i].ok /\ CorrectCalls[i].title = <<"A", "/", "B">>
    /\ Cardinality(TitleCalls) = 1
    /\ corrResult.title = <<"T", " ", "U">>
    /\ corrResult.transcript # <<>>

\* the title-generation call failed: model.invoke raised, or its content had
\* no line to take
TitleGenerationFailed ==
    \E k \in TitleCalls : ~corrLog[k].ok \/ Strip(corrLog[k].output) = <<>>

\* C21: when title generation fails on the multi-chunk path,
\* correct_transcript_chunked raises nothing: it returns the aggregate
\* transcript under the default title "Transcript"
TitleFailureGivesDefault ==
    /\ (MultiChunkPath /\ TitleGenerationFailed) =>
        /\ corrPc = "returned"
        /\ corrResult.kind = "response"
        /\ corrResult.title = <<"Transcript">>
        /\ corrResult.transcript = Strip(Join(corrected_parts, ParaSep))
        /\ Len(corrected_parts) = Len(corrChunks)
    /\ corrPc = "raised" => TitleCalls = {}

\* C21 witness: two chunks were corrected, the title model raised, and the
\* call returned their aggregate
TitleFailureGivesDefaultWitness ==
    /\ corrPc = "returned"
    /\ Len(corrChunks) = 2
    /\ \A i \in 1..2 : CorrectCalls[i].ok
    /\ ~corrLog[Len(corrLog)].ok
    /\ corrLog[Len(corrLog)].ev = "title"
    /\ corrResult.title = DefaultTitle
    /\ corrResult.transcript = corrected_parts[1] \o ParaSep \o corrected_parts[2]

\* the positions of the sleeps in corrLog
SleepCalls == {k \in 1..Len(corrLog) : corrLog[k].ev = "sleep"}

\* C22: with a positive per_chunk_sleep and n > 1 chunks, every sleep lasts
\* per_chunk_sleep and comes right after the correction call of a chunk
\* other than the last, every such call, failed or not, is followed at once
\* by a sleep, and the call returns having slept n - 1 times
SleepsBetweenChunks ==
    (MultiChunkPath /\ per_chunk_sleep > 0 /\ Len(corrChunks) > 1) =>
        /\ \A k \in SleepCalls :
            /\ corrLog[k].delay = per_chunk_sleep
            /\ k > 1
            /\ corrLog[k - 1].ev = "correct"
            /\ corrLog[k - 1].idx = corrLog[k].idx
            /\ corrLog[k].idx < Len(corrChunks)
        /\ \A k \in 1..Len(corrLog) :
            (corrLog[k].ev = "correct" /\ corrLog[k].idx < Len(corrChunks)) =>
                (k < Len(corrLog) /\ corrLog[k + 1].ev = "sleep")
        /\ corrPc = "returned" => Cardinality(SleepCalls) = Len(corrChunks) - 1

\* C22 witness: three chunks, the first failed and the others corrected, two
\* sleeps of 2 seconds, none after the third chunk
SleepsBetweenChunksWitness ==
    /\ corrPc = "returned"
    /\ per_chunk_sleep = 2
    /\ Len(corrChunks) = 3
    /\ ~CorrectCalls[1].ok /\ CorrectCalls[2].ok /\ CorrectCalls[3].ok
    /\ Cardinality(SleepCalls) = 2
    /\ corrLog[2].ev = "sleep" /\ corrLog[4].ev = "sleep"
    /\ corrLog[5].ev = "correct" /\ corrLog[6].ev = "title"

\* C27 as claimed: split_text_into_chunks returns at least one chunk, and a
\* call of correct_transcript_chunked that has ended has made at least one
\* correction call
AlwaysAChunkAndACall ==
    /\ corrPc # "start" => Len(corrChunks) >= 1
    /\ corrPc \in {"returned", "raised"} => Len(CorrectCalls) >= 1

\* C27 witness: two newlines with chunk_size = 1 split into no chunk at all;
\* the call returned an empty transcript after a title call and no
\* correction call
NoChunkNoCall ==
    /\ corrPc = "returned"
    /\ raw_text = <<NL, NL>>
    /\ chunk_size = 1
    /\ corrChunks = <<>>
    /\ CorrectCalls = <<>>
    /\ Cardinality(TitleCalls) = 1
    /\ corrResult.transcript = <<>>

\* ------------------------------------------------------------------ summaries
\* what the paragraph model answers to one batch: an error, or one bullet
\* line "- P<i>: ..." per paragraph of the batch
BatchReplies == {"fail", "bullets"}

BulletLine(i) == <<"-", " ", "P">> \o Decimal(i) \o <<":", " ", "s">>
FailedLine(i) == <<"-", " ", "P">> \o Decimal(i) \o <<":", " ", "(summary failed)">>

\* line.lstrip("- ")
RECURSIVE LStripDashSpace(_)
LStripDashSpace(s) ==
    IF s # <<>> /\ Head(s) \in {"-", " "} THEN LStripDashSpace(Tail(s)) ELSE s

\* lines 273-279 on the lines of one reply
RECURSIVE ReplyLines(_)
ReplyLines(lines) ==
    IF lines = <<>> THEN <<>>
    ELSE LET line == Strip(Head(lines))
         IN  IF line = <<>> THEN ReplyLines(Tail(lines))
             ELSE <<IF Head(line) = "-" THEN line
                    ELSE <<"-", " ">> \o Strip(LStripDashSpace(line))>>
                  \o ReplyLines(Tail(lines))

\* the number of batches: range(0, len(blocks), batch_size)
NumBatches(n, bsize) == (n + bsize - 1) \div bsize

NumParagraphBatches(corrected_text, bsize) ==
    NumBatches(Len(Paragraphs(corrected_text)), bsize)

\* more of what the paragraph model can answer: the lines without their
\* dash ("bare"), or one line short ("short")
AllBatchReplies == BatchReplies \cup {"bare", "short"}

BareLine(i) == <<"P">> \o Decimal(i) \o <<":", " ", "s">>

\* content.splitlines() of the answer to the batch first_index..last_index
ReplyContent(reply, first_index, last_index) ==
    CASE reply = "bare" ->
            [k \in 1..(last_index - first_index + 1) |-> BareLine(first_index + k - 1)]
      [] reply = "short" ->
            [k \in 1..(last_index - first_index) |-> BulletLine(first_index + k - 1)]
      [] OTHER ->
            [k \in 1..(last_index - first_index + 1) |-> BulletLine(first_index + k - 1)]

\* a single placeholder for a whole batch
FailedLinesOnce(first_index, last_index) == <<FailedLine(first_index)>>

\* lines 281-283: one placeholder per paragraph of the batch
FailedLines(first_index, last_index) ==
    [k \in 1..(last_index - first_index + 1) |-> FailedLine(first_index + k - 1)]

\* the bullet lines of batch b (lines 253-283)
BatchSummaries(b, n, bsize, reply) ==
    LET first_index == (b - 1) * bsize + 1
        last_index == IF b * bsize < n THEN b * bsize ELSE n
    IN  IF reply = "fail"
        THEN FailedLines(first_index, last_index)
        ELSE ReplyLines(ReplyContent(reply, first_index, last_index))

RECURSIVE AllSummaries(_, _, _, _)
AllSummaries(b, n, bsize, replies) ==
    IF b > NumBatches(n, bsize) THEN <<>>
    ELSE BatchSummaries(b, n, bsize, replies[b])
         \o AllSummaries(b + 1, n, bsize, replies)

\* summarize_paragraphs (lines 241-284); ctorOk: the model object of line 250
\* could be built
summarize_paragraphs(corrected_text, bsize, ctorOk, replies) ==
    LET n == Len(Paragraphs(corrected_text))
    IN  IF n = 0
        THEN [raised |-> FALSE, requests |-> 0,
              text |-> <<"Paragraph Summaries:", NL, "-", " ", "(No content)">>]
        ELSE IF ~ctorOk
        THEN [raised |-> TRUE, requests |-> 0, text |-> <<>>]
        ELSE [raised |-> FALSE, requests |-> NumBatches(n, bsize),
              text |-> <<"Paragraph Summaries:", NL>>
                       \o Join(AllSummaries(1, n, bsize, replies), <<NL>>)]

\* ------------------------------------------------------------------ SpecPara
\* one call of summarize_paragraphs, batch by batch
\* a text of n one-character paragraphs
ParaDoc(n) == Join([i \in 1..n |-> <<"a">>], ParaSep)

\* last_index = start + len(batch), batch = blocks[start:start+batch_size]
\* (lines 253-255)
LastIndexUnclipped(st, n, bsize) == st + bsize

LastIndex(st, n, bsize) == IF st + bsize < n THEN st + bsize ELSE n

\* an entry of paraLog: the request for the paragraphs first..last and the
\* answer it got
BatchRequest(first_index, last_index, reply) ==
    [first |-> first_index, last |-> last_index, reply |-> reply]

TextResult(t) == [kind |-> "text", text |-> t]
ParaRaised == [kind |-> "error", text |-> <<>>]

InitPara ==
    /\ para_text \in {ParaDoc(n) : n \in 0..MaxParagraphs}
    /\ batch_size \in 1..MaxBatchSize
    /\ blocks = <<>>
    /\ start = 0
    /\ summaries = <<>>
    /\ paraPc = "start"
    /\ paraResult = NoText
    /\ paraLog = <<>>
    /\ SplitIdle
    /\ RetryIdle
    /\ PipeIdle
    /\ CorrIdle
    /\ CsvIdle
    /\ ChatIdle

\* lines 247-251: the paragraphs are split off; without any the fixed text
\* is returned, else the model object is built, which can fail
ParaStart ==
    /\ paraPc = "start"
    /\ blocks' = Paragraphs(para_text)
    /\ IF blocks' = <<>>
       THEN /\ paraPc' = "returned"
            /\ paraResult' = TextResult(<<"Paragraph Summaries:", NL, "-", " ", "(No content)">>)
       ELSE \E ctorOk \in BOOLEAN :
            IF ctorOk
            THEN paraPc' = "loop" /\ UNCHANGED paraResult
            ELSE paraPc' = "raised" /\ paraResult' = ParaRaised
    /\ UNCHANGED <<para_text, batch_size, start, summaries, paraLog,
                   splitVars, retryVars, pipeVars, corrVars, csvVars, chatVars>>

\* lines 252-279: the request for the batch is answered
ParaBatchOk ==
    /\ paraPc = "loop"
    /\ start < Len(blocks)
    /\ \E reply \in AllBatchReplies \ {"fail"} :
        LET first_index == start + 1
            last_index == LastIndex(start, Len(blocks), batch_size)
        IN  /\ paraLog' = Append(paraLog, BatchRequest(first_index, last_index, reply))
            /\ summaries' = summaries \o ReplyLines(ReplyContent(reply, first_index, last_index))
    /\ start' = start + batch_size
    /\ UNCHANGED <<para_text, batch_size, blocks, paraPc, paraResult,
                   splitVars, retryVars, pipeVars, corrVars, csvVars, chatVars>>

\* lines 280-283: invoke_with_retry raised
ParaBatchFails ==
    /\ paraPc = "loop"
    /\ start < Len(blocks)
    /\ LET first_index == start + 1
           last_index == LastIndex(start, Len(blocks), batch_size)
       IN  /\ paraLog' = Append(paraLog, BatchRequest(first_index, last_index, "fail"))
           /\ summaries' = summaries \o FailedLines(first_index, last_index)
    /\ start' = start + batch_size
    /\ UNCHANGED <<para_text, batch_size, blocks, paraPc, paraResult,
                   splitVars, retryVars, pipeVars, corrVars, csvVars, chatVars>>

\* line 284: range(0, len(blocks), batch_size) is exhausted
ParaReturn ==
    /\ paraPc = "loop"
    /\ start >= Len(blocks)
    /\ paraPc' = "returned"
    /\ paraResult' = TextResult(<<"Paragraph Summaries:", NL>> \o Join(summaries, <<NL>>))
    /\ UNCHANGED <<para_text, batch_size, blocks, start, summaries, paraLog,
                   splitVars, retryVars, pipeVars, corrVars, csvVars, chatVars>>

NextPara == ParaStart \/ ParaBatchOk \/ ParaBatchFails \/ ParaReturn

SpecPara == InitPara /\ [][NextPara]_vars

\* the lines of a text
RECURSIVE SplitLines(_)
SplitLines(s) ==
    IF s = <<>> THEN <<>>
    ELSE LET line == FirstLine(s)
         IN  IF Len(line) = Len(s) THEN <<line>>
             ELSE <<line>> \o SplitLines(SubSeq(s, Len(line) + 2, Len(s)))

\* the bullet lines of the text summarize_paragraphs returned
BulletLines ==
    SelectSeq(SplitLines(paraResult.text), LAMBDA l : l # <<>> /\ Head(l) = "-")

HasPrefix(s, prefix) == Len(s) >= Len(prefix) /\ SubSeq(s, 1, Len(prefix)) = prefix

\* ceil(n / b) requests were issued, for the paragraphs in order in groups
\* of b, the last group holding what is left
BatchedInOrder(n, b) ==
    /\ Len(paraLog) * b >= n
    /\ (Len(paraLog) - 1) * b < n
    /\ \A k \in 1..Len(paraLog) :
        /\ paraLog[k].first = (k - 1) * b + 1
        /\ paraLog[k].last = IF k * b < n THEN k * b ELSE n

\* n bullet lines, the i-th prefixed "- P<i>:"
OneBulletPerParagraph(n) ==
    /\ Len(BulletLines) = n
    /\ \A i \in 1..n : HasPrefix(BulletLines[i], <<"-", " ", "P">> \o Decimal(i) \o <<":">>)

\* every request was answered with one line per paragraph of its batch, or
\* failed
RepliesComplete == \A k \in 1..Len(paraLog) : paraLog[k].reply # "short"

\* C16 as claimed: summarize_paragraphs on n >= 1 paragraphs with batch size
\* b returns having issued ceil(n/b) requests for the paragraphs in order in
\* groups of b, and its output has exactly n bullet lines, the i-th prefixed
\* "- P<i>:"
AlwaysOneBulletPerParagraph ==
    (paraPc = "returned" /\ Len(blocks) >= 1) =>
        /\ BatchedInOrder(Len(blocks), batch_size)
        /\ OneBulletPerParagraph(Len(blocks))

\* C16 as amended: ceil(n/b) requests are issued for the paragraphs in order
\* in groups of b; the output has exactly n bullet lines, the i-th prefixed
\* "- P<i>:", when every answered request returned one line per paragraph of
\* its batch; otherwise it has the lines the model returned; and for n = 0 no
\* request is issued and the output has the one line "- (No content)"
OneBulletPerParagraphIfAnswered ==
    /\ (paraPc = "returned" /\ Len(blocks) >= 1) =>
        /\ BatchedInOrder(Len(blocks), batch_size)
        /\ RepliesComplete => OneBulletPerParagraph(Len(blocks))
        /\ Len(BulletLines) =
              Len(blocks) - Cardinality({k \in 1..Len(paraLog) : paraLog[k].reply = "short"})
    /\ (paraPc = "returned" /\ Len(blocks) = 0) =>
        /\ paraLog = <<>>
        /\ BulletLines = << <<"-", " ", "(No content)">> >>

\* C16 witness: five paragraphs in batches of two: three requests, for
\* paragraphs 1-2, 3-4 and 5, one answered with bullets, one without the
\* dashes, one failed, and five bullet lines
OneBulletPerParagraphIfAnsweredWitness ==
    /\ paraPc = "returned"
    /\ Len(blocks) = 5
    /\ batch_size = 2
    /\ Len(paraLog) = 3
    /\ paraLog[3].first = 5 /\ paraLog[3].last = 5
    /\ {paraLog[k].reply : k \in 1..3} = {"bullets", "bare", "fail"}
    /\ OneBulletPerParagraph(5)

\* the paragraphs whose batch request failed
FailedParagraphs ==
    UNION {paraLog[k].first..paraLog[k].last :
              k \in {j \in 1..Len(paraLog) : paraLog[j].reply = "fail"}}

\* how many of the lines are the line l
Occurrences(lines, l) == Cardinality({k \in 1..Len(lines) : lines[k] = l})

\* C23: a failed batch request does not fail summarize_paragraphs: the
\* lines gathered hold exactly one "- P<i>: (summary failed)" for every
\* paragraph i of a failed batch and none for the others, the loop goes on
\* to the batches that are left, and the call returns a text whose bullet
\* lines are the gathered ones, having requested every batch
FailedBatchGetsPlaceholders ==
    /\ \A i \in 1..Len(blocks) :
           Occurrences(summaries, FailedLine(i)) = IF i \in FailedParagraphs THEN 1 ELSE 0
    /\ paraPc = "raised" => paraLog = <<>>
    /\ (paraPc = "loop" /\ paraLog # <<>>) =>
           start = IF paraLog[Len(paraLog)].last < Len(blocks)
                   THEN paraLog[Len(paraLog)].last ELSE start
    /\ (paraPc = "returned" /\ Len(blocks) >= 1) =>
        /\ paraResult.kind = "text"
        /\ BulletLines = summaries
        /\ BatchedInOrder(Len(blocks), batch_size)

\* C23 witness: five paragraphs in batches of two; the requests for
\* paragraphs 1-2 and 5 failed, the one for 3-4 was answered
FailedBatchGetsPlaceholdersWitness ==
    /\ paraPc = "returned"
    /\ Len(blocks) = 5
    /\ batch_size = 2
    /\ <<paraLog[1].reply, paraLog[2].reply, paraLog[3].reply>> = <<"fail", "bullets", "fail">>
    /\ BulletLines = <<FailedLine(1), FailedLine(2), BulletLine(3), BulletLine(4),
                       FailedLine(5)>>

\* summarize_transcript (lines 214-239): the content of the response, or the
\* error of invoke_with_retry
LlmSummaries == {<<"S1">>, <<"S2">>}
SummaryReplies == {[ok |-> FALSE, content |-> <<>>]} \cup
                  {[ok |-> TRUE, content |-> c] : c \in LlmSummaries}

\* ------------------------------------------------------------------ fetch
\* what YouTubeTranscriptApi.fetch can do: return the segments of a
\* transcript, or raise
Transcripts == {<<"a">>, <<"a", "a", "a", NL, NL, "b", "b", "b">>}
ApiOutcomes ==
    {[exc |-> "none", text |-> d] : d \in Transcripts} \cup
    {[exc |-> x, text |-> <<>>] :
        x \in {"TranscriptsDisabled", "NoTranscriptFound", "Exception"}}

\* get_transcript_from_url (lines 194-210) for a URL with a video id
get_transcript_from_url(api) ==
    CASE api.exc = "none" -> api.text
      [] api.exc = "TranscriptsDisabled" ->
            <<"Error:", " ", "Transcripts are disabled for this video.">>
      [] api.exc = "NoTranscriptFound" ->
            <<"Error:", " ", "No transcript could be found for this video.">>
      [] OTHER -> <<"An unexpected error occurred:", " ", "e">>

\* transcript.startswith("Error:") (line 323)
StartsWithErrorNoColon(t) == t # <<>> /\ Head(t) = "Error"

StartsWithError(t) == t # <<>> /\ Head(t) = "Error:"

\* ------------------------------------------------------------------ URLs
\* a URL as urlparse reads it: the host, the segments of the path, and the
\* values of the query parameter v; texts are sequences of characters
UrlOf(host, path, v) == [host |-> host, path |-> path, v |-> v]

\* the text of the URL
RECURSIVE PathText(_)
PathText(path) ==
    IF path = <<>> THEN <<>> ELSE <<"/">> \o Head(path) \o PathText(Tail(path))

UrlText(url) ==
    <<"https:", "/", "/">> \o url.host \o PathText(url.path)
    \o (IF url.v = <<>> THEN <<>> ELSE <<"?", "v", "=">> \o url.v[1])

\* the characters of [0-9A-Za-z_-] that the URLs use
IdChars == {"d", "Q", "w", "4", "9", "W", "g", "X", "c", "Z",
            "y", "t", "v", "b", "e", "a", "h", "_", "-"}

\* prefix followed by ([0-9A-Za-z_-]{11}) matches raw at position p
MatchesAt(raw, p, prefix) ==
    /\ p + Len(prefix) + 10 <= Len(raw)
    /\ \A k \in 1..Len(prefix) : raw[p + k - 1] = prefix[k]
    /\ \A k \in 0..10 : raw[p + Len(prefix) + k] \in IdChars

\* re.search of a pattern (one of prefixes)([0-9A-Za-z_-]{11}): group 1 of the
\* leftmost match, or None
RegexId(raw, prefixes) ==
    LET hits == {p \in 1..Len(raw) : \E prefix \in prefixes : MatchesAt(raw, p, prefix)}
    IN  IF hits = {} THEN NoId
        ELSE LET p == Min(hits)
                 prefix == CHOOSE x \in prefixes : MatchesAt(raw, p, x)
             IN  SubSeq(raw, p + Len(prefix), p + Len(prefix) + 10)

\* lines 183-185: the last path segment of length 11
RECURSIVE LastOfLength11(_)
LastOfLength11(segs) ==
    IF segs = <<>> THEN NoId
    ELSE IF Len(segs[Len(segs)]) = 11 THEN segs[Len(segs)]
    ELSE LastOfLength11(SubSeq(segs, 1, Len(segs) - 1))

\* extract_video_id (lines 174-192)
extract_video_id(url) ==
    LET raw == UrlText(url)
        first == RegexId(raw, {<<"v", "=">>, <<"/">>})
        second == RegexId(raw, {<<"y", "o", "u", "t", "u", ".", "b", "e", "/">>})
    IN  IF url.v # <<>> /\ Len(url.v[1]) = 11 THEN url.v[1]
        ELSE IF LastOfLength11(url.path) # NoId THEN LastOfLength11(url.path)
        ELSE IF first # NoId THEN first
        ELSE second

\* the URLs process_video is called with: the watch, short and over-long
\* forms of one video, and two URLs without a video id
VideoId == <<"d", "Q", "w", "4", "w", "9", "W", "g", "X", "c", "Q">>
Host == <<"y", "t", ".", "b", "e">>
Urls ==
    { UrlOf(Host, << <<"w", "a", "t", "c", "h">> >>, <<VideoId>>),
      UrlOf(Host, <<VideoId>>, <<>>),
      UrlOf(Host, << <<"w", "a", "t", "c", "h">> >>, <<VideoId \o <<"Z">> >>),
      UrlOf(Host, << <<"w", "a", "t", "c", "h">> >>, << <<"a", "b", "c">> >>),
      UrlOf(Host, <<>>, <<>>) }

\* vid = extract_video_id(url) (line 300) over these URLs: the one video id,
\* or None
ExtractedIds == {extract_video_id(url) : url \in Urls}

\* ------------------------------------------------------------------ process_video
\* correction.title.replace(' ', '_') (line 350)
SafeTitle(title) == [i \in 1..Len(title) |-> IF title[i] = " " THEN "_" ELSE title[i]]

\* open(video_dir/title_<safe_title>.txt, "w") succeeds: a "/" in the name
\* points into a directory that does not exist
CanCreateTitleFile(safe_title) == \A i \in 1..Len(safe_title) : safe_title[i] # "/"

\* title_txt_in_dir (lines 389-398)
title_txt_in_dir == titles # {}

\* the skip conditions of lines 316, 331, 359 and 374
SkipFetch == ~force /\ files["original_transcript"].exists
SkipCorrectUntitled ==
    ~force /\ files["corrected_transcript"].exists /\ ~title_txt_in_dir

SkipCorrectAnyTitle == ~force /\ files["corrected_transcript"].exists

SkipCorrectBlind == ~force

SkipCorrect == ~force /\ files["corrected_transcript"].exists /\ title_txt_in_dir

SkipParagraphsForced == files["paragraph_summaries"].exists

SkipParagraphs == ~force /\ files["paragraph_summaries"].exists
SkipSummaryForced == force /\ files["summary"].exists

SkipSummary == ~force /\ files["summary"].exists

\* a disabling flag that force overrides
StageDisabledUnlessForced(flag) == flag /\ ~force

\* the tests of lines 356 and 371: the flag alone decides
StageDisabled(flag) == flag

Init == PipeIdle /\ SplitIdle /\ RetryIdle /\ CorrIdle /\ ParaIdle /\ CsvIdle /\ ChatIdle

\* lines 305-306, reached only with a video id: os.makedirs(video_dir,
\* exist_ok=True)
MakeDirsFirst(exists, v) == TRUE

MakeDirs(exists, v) == exists \/ v # NoId

\* process_video is called (lines 288-313); without a video id it raises
\* ValueError at once (lines 300-303), before it has read any other argument
StartRun ==
    /\ pc = "idle"
    /\ \E v \in ExtractedIds :
        /\ vid' = v
        /\ dirExists' = MakeDirs(dirExists, v)
        /\ IF v = NoId
           THEN /\ pc' = "idle"
                /\ outcome' = "raised"
                /\ force' = FALSE
                /\ disable_paragraph_summaries' = FALSE
                /\ disable_summary' = FALSE
           ELSE /\ pc' = "fetch"
                /\ outcome' = "running"
                /\ \E f \in BOOLEAN, dp \in BOOLEAN, ds \in BOOLEAN :
                    /\ force' = f
                    /\ disable_paragraph_summaries' = dp
                    /\ disable_summary' = ds
    /\ transcript' = <<>>
    /\ corrected' = <<>>
    /\ fetchCalls' = 0
    /\ apiExc' = "none"
    /\ llmCalls' = NoCalls
    /\ reached' = {}
    /\ computed' = {}
    /\ failed' = {}
    /\ prev' = [ran |-> outcome # "none", force |-> force,
                 corrected |-> {"fetch", "correct"} \subseteq (reached \ failed)]
    /\ UNCHANGED <<dirVars, splitVars, retryVars, corrVars, paraVars, csvVars, chatVars>>

\* process_video returns or raises: its locals are gone
EndRun(how) ==
    /\ pc' = "idle"
    /\ outcome' = how
    /\ transcript' = <<>>
    /\ corrected' = <<>>

\* Step 1 (lines 315-328)
FetchStage ==
    /\ pc = "fetch"
    /\ reached' = reached \cup {"fetch"}
    /\ IF SkipFetch
       THEN /\ transcript' = files["original_transcript"].data
            /\ pc' = "correct"
            /\ UNCHANGED <<files, fetchCalls, apiExc, computed, failed, outcome, corrected>>
       ELSE \E api \in ApiOutcomes :
            LET t == get_transcript_from_url(api)
            IN  /\ fetchCalls' = fetchCalls + 1
                /\ apiExc' = api.exc
                /\ computed' = computed \cup {"fetch"}
                /\ IF StartsWithError(t)
                   THEN /\ EndRun("returned")
                        /\ failed' = failed \cup {"fetch"}
                        /\ UNCHANGED files
                   ELSE /\ files' = [files EXCEPT !["original_transcript"] = FileOf(t)]
                        /\ transcript' = t
                        /\ pc' = "correct"
                        /\ UNCHANGED <<failed, outcome, corrected>>
    /\ UNCHANGED <<titles, force, disable_paragraph_summaries, disable_summary,
                   llmCalls, prev,
                   urlVars, splitVars, retryVars, corrVars, paraVars, csvVars, chatVars>>

\* Step 2 (lines 330-353)
CorrectStage ==
    /\ pc = "correct"
    /\ reached' = reached \cup {"correct"}
    /\ IF SkipCorrect
       THEN /\ corrected' = files["corrected_transcript"].data
            /\ pc' = "paragraphs"
            /\ UNCHANGED <<files, titles, llmCalls, computed, failed, outcome, transcript>>
       ELSE \E replies \in [1..NumCorrectionCalls(transcript, RunChunkSize) -> CorrectionReplies],
               titleReply \in TitleReplies :
            LET correction == correct_transcript_chunked(transcript, RunChunkSize,
                                                         replies, titleReply)
                safe_title == SafeTitle(correction.title)
            IN  /\ computed' = computed \cup {"correct"}
                /\ llmCalls' = [llmCalls EXCEPT !["correct"] = correction.requests]
                /\ IF correction.raised
                   THEN /\ EndRun("raised")
                        /\ failed' = failed \cup {"correct"}
                        /\ UNCHANGED <<files, titles>>
                   ELSE /\ files' = [files EXCEPT !["corrected_transcript"] =
                                                       FileOf(correction.transcript)]
                        /\ IF CanCreateTitleFile(safe_title)
                           THEN /\ titles' = titles \cup {safe_title}
                                /\ corrected' = correction.transcript
                                /\ pc' = "paragraphs"
                                /\ UNCHANGED <<failed, outcome, transcript>>
                           ELSE /\ EndRun("raised")
                                /\ failed' = failed \cup {"correct"}
                                /\ UNCHANGED titles
    /\ UNCHANGED <<force, disable_paragraph_summaries, disable_summary,
                   fetchCalls, apiExc, prev,
                   urlVars, splitVars, retryVars, corrVars, paraVars, csvVars, chatVars>>

\* the stage is over and process_video goes on to the next one (to its end
\* after the last)
GoOn(next) ==
    IF next = "idle" THEN EndRun("returned")
    ELSE pc' = next /\ UNCHANGED <<outcome, transcript, corrected>>

\* the except branches of lines 368-369 and 383-384: the error is logged and
\* process_video goes on
Propagated(next) == EndRun("raised")

CaughtAndLogged(next) == GoOn(next)

\* Step 2.5 (lines 355-369)
ParagraphStage ==
    /\ pc = "paragraphs"
    /\ reached' = reached \cup {"paragraphs"}
    /\ IF StageDisabled(disable_paragraph_summaries) \/ SkipParagraphs
       THEN /\ GoOn("summary")
            /\ UNCHANGED <<files, llmCalls, computed, failed>>
       ELSE \E ctorOk \in BOOLEAN,
               replies \in [1..NumParagraphBatches(corrected, RunBatchSize) -> BatchReplies] :
            LET r == summarize_paragraphs(corrected, RunBatchSize, ctorOk, replies)
            IN  /\ computed' = computed \cup {"paragraphs"}
                /\ llmCalls' = [llmCalls EXCEPT !["paragraphs"] = r.requests]
                /\ IF r.raised
                   THEN /\ CaughtAndLogged("summary")
                        /\ failed' = failed \cup {"paragraphs"}
                        /\ UNCHANGED files
                   ELSE /\ GoOn("summary")
                        /\ files' = [files EXCEPT !["paragraph_summaries"] = FileOf(r.text)]
                        /\ UNCHANGED failed
    /\ UNCHANGED <<titles, force, disable_paragraph_summaries, disable_summary,
                   fetchCalls, apiExc, prev,
                   urlVars, splitVars, retryVars, corrVars, paraVars, csvVars, chatVars>>

\* Step 3 (lines 370-386)
SummaryStage ==
    /\ pc = "summary"
    /\ reached' = reached \cup {"summary"}
    /\ IF StageDisabled(disable_summary) \/ SkipSummary
       THEN /\ GoOn("idle")
            /\ UNCHANGED <<files, llmCalls, computed, failed>>
       ELSE \E reply \in SummaryReplies :
            /\ computed' = computed \cup {"summary"}
            /\ llmCalls' = [llmCalls EXCEPT !["summary"] = 1]
            /\ IF reply.ok
               THEN /\ GoOn("idle")
                    /\ files' = [files EXCEPT !["summary"] = FileOf(reply.content)]
                    /\ UNCHANGED failed
               ELSE /\ CaughtAndLogged("idle")
                    /\ failed' = failed \cup {"summary"}
                    /\ UNCHANGED files
    /\ UNCHANGED <<titles, force, disable_paragraph_summaries, disable_summary,
                   fetchCalls, apiExc, prev,
                   urlVars, splitVars, retryVars, corrVars, paraVars, csvVars, chatVars>>

Next == StartRun \/ FetchStage \/ CorrectStage \/ ParagraphStage \/ SummaryStage

Spec == Init /\ [][Next]_vars

\* ------------------------------------------------------------------ claims on process_video
\* the run in progress (or just ended) is a force=false run that follows a
\* force=false run whose Fetch and Correct stages both succeeded
SecondPlainRun == prev.ran /\ ~prev.force /\ prev.corrected /\ ~force

\* C1: the second of two consecutive force=false runs, the first of which got
\* through Fetch and Correct, fetches no transcript, makes no text-generation
\* call for the Correct stage, and no step of it changes corrected_transcript
SecondRunHitsCache ==
    /\ [](SecondPlainRun =>
            /\ fetchCalls = 0
            /\ llmCalls["correct"] = 0
            /\ computed \cap {"fetch", "correct"} = {})
    /\ [][(SecondPlainRun /\ pc # "idle") =>
            files'["corrected_transcript"] = files["corrected_transcript"]]_vars

\* C1 witness: such a second run has ended, having passed Fetch and Correct
\* from the cache and computed the summary
SecondRunHitsCacheWitness ==
    /\ SecondPlainRun
    /\ pc = "idle"
    /\ outcome = "returned"
    /\ {"fetch", "correct"} \subseteq reached
    /\ "summary" \in computed
    /\ files["corrected_transcript"].exists

\* the stages that come after a stage
LaterStages(st) ==
    CASE st = "fetch" -> {"correct", "paragraphs", "summary"}
      [] st = "correct" -> {"paragraphs", "summary"}
      [] st = "paragraphs" -> {"summary"}
      [] OTHER -> {}

RunEnded == pc = "idle" /\ outcome # "none"

UpstreamUnavailable == apiExc \in {"TranscriptsDisabled", "NoTranscriptFound"}

\* C3: when the fetch fails because the content is unavailable upstream,
\* process_video returns at once: no later stage is reached, no text-generation
\* call is made, and the step leaves corrected_transcript, the title files,
\* paragraph_summaries and summary as they were (so does the step that
\* starts a run)
FetchFailureAborts ==
    /\ [](UpstreamUnavailable =>
            /\ pc = "idle"
            /\ outcome = "returned"
            /\ reached = {"fetch"}
            /\ computed = {"fetch"}
            /\ llmCalls = NoCalls)
    /\ [][(pc = "idle" \/ apiExc' \in {"TranscriptsDisabled", "NoTranscriptFound"}) =>
            /\ titles' = titles
            /\ \A a \in ArtifactNames \ {"original_transcript"} : files'[a] = files[a]]_vars

\* C3 witness: a forced run over a directory that already holds a corrected
\* transcript and a summary was aborted by TranscriptsDisabled
FetchFailureAbortsWitness ==
    /\ apiExc = "TranscriptsDisabled"
    /\ pc = "idle"
    /\ force
    /\ files["corrected_transcript"].exists
    /\ files["summary"].exists
    /\ titles # {}

\* C4 as claimed: no step of a force=false run changes an artifact that exists
ExistingArtifactsKept ==
    [][(pc # "idle" /\ ~force) =>
          \A a \in ArtifactNames : files[a].exists => files'[a] = files[a]]_vars

\* C4 as amended: no step of a force=false run changes an existing
\* original_transcript, paragraph_summaries or summary, nor an existing
\* corrected_transcript that has a title file beside it
ExistingArtifactsKeptWithTitle ==
    [][(pc # "idle" /\ ~force) =>
          \A a \in ArtifactNames :
              (files[a].exists /\ (a = "corrected_transcript" => title_txt_in_dir))
                  => files'[a] = files[a]]_vars

\* C4 witness: a force=false run over a directory that held everything but
\* the summary ended having computed the summary alone
ExistingArtifactsKeptWithTitleWitness ==
    /\ RunEnded
    /\ ~force
    /\ outcome = "returned"
    /\ computed = {"summary"}
    /\ \A a \in ArtifactNames : files[a].exists

\* the stages in the order of lines 315-384, and the ones the arguments of
\* the run disable
AllStages == {"fetch", "correct", "paragraphs", "summary"}
StageOrder == <<"fetch", "correct", "paragraphs", "summary">>
DisabledStages ==
    (IF disable_paragraph_summaries THEN {"paragraphs"} ELSE {})
    \cup (IF disable_summary THEN {"summary"} ELSE {})

CorrectSkippedIffBothExist ==
    [][(pc = "correct" /\ ~force) =>
          /\ "correct" \notin computed' <=>
                (files["corrected_transcript"].exists /\ titles # {})
          /\ "correct" \notin computed' =>
                (files' = files /\ titles' = titles /\ llmCalls'["correct"] = 0)
          /\ "correct" \in computed' => llmCalls'["correct"] >= 1]_vars

\* C13 witness: a force=false run has read the transcript back and comes to
\* its Correct stage over a directory that holds a corrected transcript but
\* no title file, the run before having failed to write one
CorrectSkippedIffBothExistWitness ==
    /\ ~force
    /\ pc = "correct"
    /\ "fetch" \in reached \ computed
    /\ prev.ran /\ ~prev.corrected
    /\ files["corrected_transcript"].exists
    /\ titles = {}

\* the stages begin in the fixed order
ReachedInOrder ==
    \A k \in 1..4 : StageOrder[k] \in reached =>
        \A j \in 1..(k - 1) : StageOrder[j] \in reached

\* C14 as claimed: the stages begin in the fixed order, each only once the
\* artifact of the stage before it is available, computed or read back
StagesWaitForPredecessor ==
    /\ ReachedInOrder
    /\ pc = "correct" =>
          files["original_transcript"].exists
          /\ transcript = files["original_transcript"].data
    /\ pc = "paragraphs" =>
          files["corrected_transcript"].exists
          /\ corrected = files["corrected_transcript"].data
    /\ pc = "summary" => files["paragraph_summaries"].exists

\* C14 as amended: the stages begin in the fixed order, each only once the
\* artifact it works on is available, computed or read back: the original
\* transcript for Correct, the corrected transcript (with a title file) for
\* Paragraph-summarize and for Summarize; Summarize does not wait for
\* paragraph_summaries
StagesWaitForInput ==
    /\ ReachedInOrder
    /\ pc = "correct" =>
          files["original_transcript"].exists
          /\ transcript = files["original_transcript"].data
    /\ pc \in {"paragraphs", "summary"} =>
          files["corrected_transcript"].exists
          /\ corrected = files["corrected_transcript"].data
          /\ titles # {}

\* C14 witness: the Summarize stage is about to begin on the corrected
\* transcript read back from its file, the paragraph summaries having failed
StagesWaitForInputWitness ==
    /\ pc = "summary"
    /\ reached = {"fetch", "correct", "paragraphs"}
    /\ computed = {"paragraphs"}
    /\ "paragraphs" \in failed
    /\ ~files["paragraph_summaries"].exists
    /\ corrected = files["corrected_transcript"].data
    /\ corrected # <<>>

\* C15: a call whose URL yields no video id raises at once: it reaches no
\* stage, fetches nothing, calls no model, and the step creates neither the
\* directory of the video nor any file
InvalidUrlRaisesFirst ==
    /\ []((vid = NoId /\ outcome # "none") =>
            /\ pc = "idle"
            /\ outcome = "raised"
            /\ reached = {}
            /\ fetchCalls = 0
            /\ llmCalls = NoCalls)
    /\ [][vid' = NoId => UNCHANGED <<dirExists, files, titles>>]_vars
    /\ [](~dirExists => (titles = {} /\ \A a \in ArtifactNames : ~files[a].exists))

\* C15 witness: the first call ever was made with such a URL and raised;
\* there is still no directory
InvalidUrlRaisesFirstWitness ==
    /\ vid = NoId
    /\ outcome = "raised"
    /\ pc = "idle"
    /\ ~prev.ran
    /\ ~dirExists

\* the texts get_transcript_from_url returns when the API raised
RetrievalErrorTexts ==
    {get_transcript_from_url(api) : api \in {a \in ApiOutcomes : a.exc # "none"}}

\* C25 as claimed: whenever the retrieval fails, whatever the error,
\* process_video has returned at once without a text-generation call, and
\* original_transcript never holds an error message
RetrievalErrorNeverStored ==
    /\ apiExc # "none" =>
        /\ pc = "idle"
        /\ reached = {"fetch"}
        /\ llmCalls = NoCalls
    /\ ~(files["original_transcript"].exists
          /\ files["original_transcript"].data \in RetrievalErrorTexts)

\* C25 witness: the API raised an unexpected exception; the message was
\* saved as original_transcript, sent to the correction model, and the run
\* went through all its stages
UnexpectedErrorStoredAsTranscript ==
    /\ apiExc = "Exception"
    /\ RunEnded
    /\ outcome = "returned"
    /\ files["original_transcript"].data = <<"An unexpected error occurred:", " ", "e">>
    /\ llmCalls["correct"] >= 1
    /\ files["corrected_transcript"].exists
    /\ reached = AllStages

\* C26 as claimed: the directory never holds more than one title file
AtMostOneTitleFile == Cardinality(titles) <= 1

\* C26 witness: a force=true run whose title generation failed has ended
\* over a directory that holds title_T_U.txt, written by an earlier run,
\* and its own title_Transcript.txt
TwoTitleFiles ==
    /\ RunEnded
    /\ force
    /\ prev.ran
    /\ "correct" \in computed
    /\ titles = {<<"T", "_", "U">>, <<"Transcript">>}

\* the artifact of a stage that can be disabled
ArtifactOf(st) == IF st = "paragraphs" THEN "paragraph_summaries" ELSE "summary"

\* C29: a stage disabled by disable_paragraph_summaries or disable_summary
\* makes no text-generation call and computes nothing in that run, and no
\* step of the run creates or changes its artifact, with force or without,
\* whether the artifact exists or not
DisabledStageDoesNothing ==
    /\ [](\A st \in DisabledStages : llmCalls[st] = 0 /\ st \notin computed)
    /\ [][\A st \in {"paragraphs", "summary"} :
            (st \in DisabledStages \/ (pc = "idle" /\ pc' # "idle")) =>
                files'[ArtifactOf(st)] = files[ArtifactOf(st)]]_vars

\* C29 witness: a force=true run with both stages disabled has ended, having
\* recomputed the transcript and its correction, over a directory that holds
\* paragraph summaries from an earlier run and no summary
DisabledStageDoesNothingWitness ==
    /\ RunEnded
    /\ outcome = "returned"
    /\ force
    /\ DisabledStages = {"paragraphs", "summary"}
    /\ reached = AllStages
    /\ computed = {"fetch", "correct"}
    /\ files["paragraph_summaries"].exists
    /\ ~files["summary"].exists

\* ------------------------------------------------------------------ process_csv
\* web_crawl.py, process_csv (lines 49-95). A CSV file is the sequence of
\* rows csv.reader yields, the header first, each row a sequence of fields;
\* a missing file is NoFile
NoFile == << <<"(no such file)">> >>

\* the rows a file can hold: a blank line, a URL alone, a URL with a flag
CsvRowChoices == {<<>>, <<" u1 ">>, <<"u2", " Yes ">>, <<"u1", "no">>}

RECURSIVE RowsUpTo(_)
RowsUpTo(n) ==
    IF n = 0 THEN {<<>>}
    ELSE RowsUpTo(n - 1) \cup
         {Append(r, x) : r \in {q \in RowsUpTo(n - 1) : Len(q) = n - 1}, x \in CsvRowChoices}

CsvFiles == {NoFile} \cup {<<>>} \cup {<< <<"url", "crawl">> >> \o r : r \in RowsUpTo(MaxCsvRows)}

\* field.strip() and field.strip().lower() of the fields above
StripField(field) ==
    CASE field = " u1 " -> "u1"
      [] field = " Yes " -> "Yes"
      [] OTHER -> field
LowerField(field) == IF field = "Yes" THEN "yes" ELSE field

\* lines 61-66: the (url, crawl_flag) of a row
RowEntry(row) ==
    [url |-> StripField(row[1]),
     crawl |-> Len(row) > 1 /\ LowerField(StripField(row[2])) \in {"true", "1", "yes", "y"}]

\* lines 57-66: next(reader, None) takes the header, blank rows are skipped
RECURSIVE DataRows(_)
DataRows(lines) ==
    IF lines = <<>> THEN <<>>
    ELSE IF Head(lines) = <<>> THEN DataRows(Tail(lines))
    ELSE <<RowEntry(Head(lines))>> \o DataRows(Tail(lines))

ParseRows(file) == IF file = <<>> THEN <<>> ELSE DataRows(Tail(file))

\* an entry of csvLog
CsvEvent(ev, entry, ok) == [ev |-> ev, url |-> entry.url, crawl |-> entry.crawl, ok |-> ok]

InitCsv ==
    /\ csv_file \in CsvFiles
    /\ summarize \in {"None", "True", "False"}
    /\ rows = <<>>
    /\ run_results = <<>>
    /\ do_summary = FALSE
    /\ summarized = 0
    /\ csvPc = "start"
    /\ csvLog = <<>>
    /\ SplitIdle
    /\ RetryIdle
    /\ PipeIdle
    /\ CorrIdle
    /\ ParaIdle
    /\ ChatIdle

\* lines 51-68: FileNotFoundError for a missing file, else the rows are read
CsvLoad ==
    /\ csvPc = "start"
    /\ IF csv_file = NoFile
       THEN csvPc' = "raised" /\ UNCHANGED rows
       ELSE csvPc' = "fetch" /\ rows' = ParseRows(csv_file)
    /\ UNCHANGED <<csv_file, summarize, run_results, do_summary, summarized, csvLog,
                   splitVars, retryVars, pipeVars, corrVars, paraVars, chatVars>>

\* the for loop of line 70 has gone through rows
FetchLoopDoneEarly(results, entries) == Len(results) >= 1 \/ entries = <<>>

FetchLoopDone(results, entries) == Len(results) >= Len(entries)

\* lines 70-74: crawler.fetch returns and its result is kept
CsvFetchOk ==
    /\ csvPc = "fetch"
    /\ ~FetchLoopDone(run_results, rows)
    /\ LET entry == rows[Len(run_results) + 1]
       IN  /\ csvLog' = Append(csvLog, CsvEvent("fetch", entry, TRUE))
           /\ run_results' = Append(run_results, entry)
    /\ UNCHANGED <<csv_file, summarize, rows, do_summary, summarized, csvPc,
                   splitVars, retryVars, pipeVars, corrVars, paraVars, chatVars>>

\* line 72: crawler.fetch raises, and nothing catches it
CsvFetchFails ==
    /\ csvPc = "fetch"
    /\ ~FetchLoopDone(run_results, rows)
    /\ csvLog' = Append(csvLog, CsvEvent("fetch", rows[Len(run_results) + 1], FALSE))
    /\ csvPc' = "raised"
    /\ UNCHANGED <<csv_file, summarize, rows, run_results, do_summary, summarized,
                   splitVars, retryVars, pipeVars, corrVars, paraVars, chatVars>>

\* lines 76-87: the decision is taken once, from the argument or from the
\* answer to the prompt
CsvDecide ==
    /\ csvPc = "fetch"
    /\ FetchLoopDone(run_results, rows)
    /\ \E answer \in BOOLEAN :
        /\ do_summary' = IF summarize = "None" THEN answer ELSE summarize = "True"
        /\ csvLog' = IF summarize = "None"
                     THEN Append(csvLog, [ev |-> "prompt", url |-> "", crawl |-> FALSE,
                                          ok |-> answer])
                     ELSE csvLog
    /\ csvPc' = IF do_summary' THEN "summarize" ELSE "returned"
    /\ UNCHANGED <<csv_file, summarize, rows, run_results, summarized,
                   splitVars, retryVars, pipeVars, corrVars, paraVars, chatVars>>

\* lines 88-94: summarizer.summarize returns for the next result
CsvSummarizeOk ==
    /\ csvPc = "summarize"
    /\ summarized < Len(run_results)
    /\ csvLog' = Append(csvLog, CsvEvent("summarize", run_results[summarized + 1], TRUE))
    /\ summarized' = summarized + 1
    /\ UNCHANGED <<csv_file, summarize, rows, run_results, do_summary, csvPc,
                   splitVars, retryVars, pipeVars, corrVars, paraVars, chatVars>>

\* line 91: summarizer.summarize raises, and nothing catches it
CsvSummarizeFails ==
    /\ csvPc = "summarize"
    /\ summarized < Len(run_results)
    /\ csvLog' = Append(csvLog, CsvEvent("summarize", run_results[summarized + 1], FALSE))
    /\ csvPc' = "raised"
    /\ UNCHANGED <<csv_file, summarize, rows, run_results, do_summary, summarized,
                   splitVars, retryVars, pipeVars, corrVars, paraVars, chatVars>>

\* line 95: every result is summarized
CsvReturn ==
    /\ csvPc = "summarize"
    /\ summarized >= Len(run_results)
    /\ csvPc' = "returned"
    /\ UNCHANGED <<csv_file, summarize, rows, run_results, do_summary, summarized, csvLog,
                   splitVars, retryVars, pipeVars, corrVars, paraVars, chatVars>>

NextCsv ==
    CsvLoad \/ CsvFetchOk \/ CsvFetchFails \/ CsvDecide \/ CsvSummarizeOk
    \/ CsvSummarizeFails \/ CsvReturn

SpecCsv == InitCsv /\ [][NextCsv]_vars

\* the positions of the calls of one kind in csvLog
CsvCalls(ev) == {k \in 1..Len(csvLog) : csvLog[k].ev = ev}

\* C24: process_csv handles the documents one at a time, in the order of
\* the file: the k-th fetch is for the k-th entry and the k-th summarize
\* call for the k-th entry; and every summarize call comes after the fetch
\* of every entry has returned
FetchAllBeforeSummarize ==
    /\ \A k \in CsvCalls("fetch") :
        /\ k <= Len(rows)
        /\ csvLog[k].url = rows[k].url /\ csvLog[k].crawl = rows[k].crawl
    /\ \A k \in CsvCalls("summarize") :
        /\ \A j \in 1..Len(rows) : j < k /\ csvLog[j].ev = "fetch" /\ csvLog[j].ok
        /\ \A j \in CsvCalls("fetch") : j < k
        /\ Cardinality({j \in CsvCalls("summarize") : j <= k}) <= Len(rows)
        /\ csvLog[k].url = rows[Cardinality({j \in CsvCalls("summarize") : j <= k})].url
    /\ (csvPc = "returned" /\ do_summary) =>
        Cardinality(CsvCalls("summarize")) = Len(rows)

\* C24 witness: three entries, fetched one after the other, then the prompt
\* answered yes, then the three summarized in the same order
FetchAllBeforeSummarizeWitness ==
    /\ csvPc = "returned"
    /\ summarize = "None"
    /\ Len(rows) = 3
    /\ rows[1].url = "u1" /\ rows[2].url = "u2" /\ rows[2].crawl
    /\ Len(csvLog) = 7
    /\ \A k \in 1..3 : csvLog[k].ev = "fetch" /\ csvLog[k + 4].ev = "summarize"
    /\ csvLog[4].ev = "prompt"

\* ------------------------------------------------------------------ ChatBot
\* chatbot.py, ChatBot._build_messages and ChatBot.ask (lines 31-53). A
\* message is a (role, content) pair
SystemMessage == <<"system", "SYSTEM_PROMPT">>

UserTexts == {"u1", "u2"}
ModelAnswers == {"a1"}
ErrorAnswer == "I'm sorry, I had an internal error generating a response."

\* the Python slice s[-k:] for k >= 0: the last k elements, all of s when
\* it has fewer, and, -0 being 0, all of s when k = 0
NegSlice(s, k) ==
    IF k = 0 \/ k >= Len(s) THEN s ELSE SubSeq(s, Len(s) - k + 1, Len(s))

\* _build_messages (lines 31-36)
BuildMessages(hist, size) == <<SystemMessage>> \o NegSlice(hist, size * 2)

\* lines 51-52
TrimHistory(hist, size) ==
    IF Len(hist) > size * 2 + 4 THEN NegSlice(hist, size * 2 + 4) ELSE hist

\* a ChatBot as __init__ leaves it (lines 22-29)
InitChat ==
    /\ history_max_size \in 0..MaxHistorySize
    /\ history = <<>>
    /\ messages = <<>>
    /\ asks = 0
    /\ SplitIdle
    /\ RetryIdle
    /\ PipeIdle
    /\ CorrIdle
    /\ ParaIdle
    /\ CsvIdle

\* ask (lines 38-53) with the answer the call of line 42 led to
Ask(user_text, answer) ==
    LET asked == Append(history, <<"human", user_text>>)
    IN  /\ asks < MaxAsks
        /\ asks' = asks + 1
        /\ messages' = BuildMessages(asked, history_max_size)
        /\ history' = TrimHistory(Append(asked, <<"ai", answer>>), history_max_size)
        /\ UNCHANGED <<history_max_size, splitVars, retryVars, pipeVars, corrVars,
                       paraVars, csvVars>>

\* model.invoke returned (lines 42-46)
AskOk == \E user_text \in UserTexts, answer \in ModelAnswers : Ask(user_text, answer)

\* model.invoke raised (lines 47-49)
AskFails == \E user_text \in UserTexts : Ask(user_text, ErrorAnswer)

NextChat == AskOk \/ AskFails

SpecChat == InitChat /\ [][NextChat]_vars

\* C30 as claimed: for every history_max_size >= 0 the message list of an
\* ask call is the system prompt followed by at most 2 * history_max_size
\* history entries, the last of them the user text of that call, and the
\* stored history has at most 2 * history_max_size + 4 entries
MessagesWithinWindow ==
    /\ Len(history) <= 2 * history_max_size + 4
    /\ asks > 0 =>
        /\ messages[1] = SystemMessage
        /\ Len(messages) - 1 <= 2 * history_max_size
        /\ messages[Len(messages)] = history[Len(history) - 1]
        /\ messages[Len(messages)][1] = "human"

\* C30 witness: the third ask of a ChatBot with history_max_size = 0 sent
\* the system prompt and five history entries
ZeroWindowSendsEverything ==
    /\ history_max_size = 0
    /\ asks = 3
    /\ Len(messages) = 6
    /\ messages[1] = SystemMessage
    /\ messages[6] = history[3]
    /\ Len(history) = 4

\* the window of a ChatBot with history_max_size >= 1 is kept
PositiveWindowKept == history_max_size >= 1 => MessagesWithinWindow
====
